---- MODULE Spec2Model ----
(***************************************************************************)
(* CompressVideo.py: batch compression of video files.                     *)
(*                                                                         *)
(* Two threads share the MainWindow object: the GUI thread (start_stop)    *)
(* and the worker thread (process_daemon).  The external transcoder        *)
(* (ffmpeg) runs as a subprocess next to the worker, and another program   *)
(* may delete a candidate file.  The worker is modelled with one step per  *)
(* group of source lines between two points where another thread, the      *)
(* subprocess or the file system can be observed.                          *)
(*                                                                         *)
(* Spec is the batch; SpecLive is Spec with a fairly scheduled worker;     *)
(* SpecTwoRuns adds a second instance of the program that shares the       *)
(* temporary directory; SpecPolicy is the choice of codec and quality for  *)
(* any prober output; SpecProgress is the read loop for any transcoder     *)
(* output.                                                                 *)
(***************************************************************************)
EXTENDS Integers, Sequences, FiniteSets, TLC

\* ------------------------------------------------------------------ bounds
\* number of candidate files below the chosen path
NFiles ==
    2
\* number of times the Start button is pressed
MaxRuns ==
    2
\* number of files another program may delete while the program runs
MaxVanish ==
    1
\* number of lines the transcoder writes to its stderr
MaxLines ==
    2
\* number of video-stream lines in one prober output
MaxStreams ==
    2
\* number of lines in a transcoder output that is handled on its own
MaxOut ==
    3
\* largest seconds field of a timestamp in such an output
MaxSec ==
    1

\* ------------------------------------------------------- program constants
\* line 335: an output of at most this many bytes is a conversion problem
MinOutputSize ==
    1024
\* line 339: new_file_size < old_file_size * 0.9, as tenths
RatioNum ==
    9
RatioDen ==
    10
\* line 252: w*h > 2560*1440
WQHD ==
    2560 * 1440
\* line 262: w*h > 1920*1080
FHD ==
    1920 * 1080
\* lines 255, 262: fps > 30; frame rates are kept in hundredths of a frame
FpsLimit ==
    3000

\* ------------------------------------------------------------- value sets
Files ==
    1..NFiles

\* a file on disk: the identity of its bytes, its size, its access and
\* modification timestamps, and
\* whether its bytes hold a video stream the prober reports
NoFile ==
    [id |-> 0, size |-> 0, atime |-> "none", mtime |-> "none", video |-> FALSE]

\* bytes of a temporary output the transcoder did not finish
Partial ==
    [id |-> -1, size |-> 0, atime |-> "new", mtime |-> "new", video |-> FALSE]

\* sizes of the originals: files whose 0.9-fold is the integer 1026 take
\* turns with files that are themselves smaller than MinOutputSize
OrigSize(f) ==
    IF f % 2 = 1 THEN MinOutputSize + 116 ELSE MinOutputSize - 24

\* the file at path f before the program ran, with or without a video stream
Original(f, v) ==
    [id |-> f, size |-> OrigSize(f), atime |-> "old", mtime |-> "old",
     video |-> v]

\* sizes of a finished transcoder output, around MinOutputSize and around
\* 0.9 * (MinOutputSize + 116) = MinOutputSize + 2
NewSizes ==
    {MinOutputSize, MinOutputSize + 1, MinOutputSize + 2, MinOutputSize + 3}

\* the bytes the transcoder makes of the bytes id
OutId(id) ==
    id + NFiles

\* in_filename of the candidate f: the candidates have one base name and
\* one extension and lie in different directories below the chosen path
Path(f) ==
    [dir |-> f, name |-> "video", ext |-> ".mp4"]

\* the source a second instance of the program is processing: a file of
\* the same base name and extension in yet another directory
OtherPath ==
    [dir |-> 0, name |-> "video", ext |-> ".mp4"]

\* the finished output of the second instance's transcoder
OtherOutput ==
    [id |-> OutId(NFiles + 1), size |-> MinOutputSize + 1, atime |-> "new",
     mtime |-> "new", video |-> TRUE]

\* probed streams: [w, h, fps], fps in hundredths
Dims ==
    {<<1920, 1080>>, <<1921, 1080>>, <<2560, 1440>>, <<2561, 1440>>}

Rates ==
    {FpsLimit, FpsLimit + 1}

Streams ==
    {[w |-> d[1], h |-> d[2], fps |-> r] : d \in Dims, r \in Rates}

\* the lines of a prober output that match the video-stream pattern
ProbeOutputs ==
    UNION {[1..n -> Streams] : n \in 0..MaxStreams}

NoPlan ==
    [codec |-> "", crf |-> 0]

\* the transcoder subprocess: whether it runs, its exit status, the size
\* of the output it finished, the lines it has written to its stderr, the
\* lines of them not yet read, and whether the worker terminated it
NoProc ==
    [state |-> "none", exitcode |-> 0, out |-> 0, written |-> 0, pipe |-> 0,
     terminated |-> FALSE]

\* timestamps HH:MM:SS as the transcoder prints them, as <<hours, minutes,
\* seconds>>: two digits each, the hours not wrapped at one day
Stamps ==
    {0, 23, 24} \X (0..1) \X (0..MaxSec)

\* a line of the transcoder's stderr: one that holds "Duration: HH:MM:SS",
\* one that holds "time=HH:MM:SS", or one that holds neither
NoStamp ==
    <<0, 0, 0>>

OutLines ==
    {[kind |-> k, ts |-> t] : k \in {"Duration", "time"}, t \in Stamps}
        \cup {[kind |-> "other", ts |-> NoStamp]}

\* the timestamp the transcoder prints for a number of seconds
Clock(n) ==
    <<n \div 3600, (n \div 60) % 60, n % 60>>

\* the k-th line the transcoder of a batch writes: the duration of a video
\* of MaxLines - 1 seconds, then one progress line for each second
FfmpegLine(k) ==
    IF k = 1
    THEN [kind |-> "Duration", ts |-> Clock(MaxLines - 1)]
    ELSE [kind |-> "time", ts |-> Clock(k - 1)]

DurationLines ==
    {l \in OutLines : l.kind = "Duration"}

LaterLines ==
    {l \in OutLines : l.kind # "Duration"}

Range(s) ==
    {s[i] : i \in DOMAIN s}

VARIABLES
    disk,               \* the candidate paths: disk[f] is the file at path f, or NoFile
    tmp,                \* the file at tmp_filename(Path(f)), one for all f, or NoFile
    hash_list,          \* Settings.hash_list
    tools,              \* which executables are in $PATH
    stop,               \* MainWindow.stop
    ffmpeg_thread,      \* MainWindow.ffmpeg_thread is set
    label_video_name,   \* MainWindow.label_video_name["text"]
    label_progress,     \* MainWindow.label_progress["text"]
    pc,                 \* position of the worker thread
    filenames,          \* process_daemon: filenames
    f_id,               \* process_daemon: f_id (-1 before the loop)
    success,            \* process_daemon: success
    result,             \* value returned by hash_and_compress
    progress_video,     \* MainWindow.progress_video["value"]
    stderr,             \* process.stderr: the lines the prober or the transcoder wrote
    plan,               \* compress_and_replace: codec, crf
    proc,               \* the transcoder subprocess and its pipe
    total_time,         \* compress_and_replace: total_time
    raised,             \* exception that left process_daemon
    run,                \* history: number of batch runs started
    vanished,           \* history: paths deleted by another program
    before,             \* history: the file at the current path when its processing began
    stop_fid,           \* history: f_id when stop was first requested in this run
    stop_pc,            \* history: Phase when stop was first requested in this run
    ok_files,           \* history: paths counted as success in this run
    popened,            \* history: paths the transcoder was started for in this run
    prev_ok,            \* history: ok_files of the previous run
    prev_stopped        \* history: the previous run was asked to stop

vars ==
    <<disk, tmp, hash_list, tools, stop, ffmpeg_thread, label_video_name,
      label_progress, progress_video, pc, filenames, f_id, success, result,
      stderr, plan, proc, total_time, raised, run, vanished, before, stop_fid,
      stop_pc, ok_files, popened, prev_ok, prev_stopped>>

gui ==
    <<stop, ffmpeg_thread>>

labels ==
    <<label_video_name, label_progress, progress_video>>

loopvars ==
    <<filenames, f_id, success>>

locals ==
    <<stderr, plan, proc, total_time>>

history ==
    <<run, vanished, before, stop_fid, stop_pc, ok_files, popened, prev_ok,
      prev_stopped>>

\* the path the worker is processing
cur ==
    filenames[f_id + 1]


\* ------------------------------------------------------- pure functions
\* md5 of the bytes of a file: equal for equal bytes, taken to be free of
\* collisions; the timestamps are not part of it
get_file_fingerprint(file) ==
    <<"md5", file.id, file.size>>

\* a plausible slip: the resolution limits taken as inclusive
PlanOfLine_Inclusive(w, h, fps) ==
    IF w * h >= WQHD
    THEN [codec |-> "libx265", crf |-> IF fps > FpsLimit THEN 23 ELSE 25, brk |-> TRUE]
    ELSE IF w * h >= FHD \/ fps > FpsLimit
         THEN [codec |-> "libx264", crf |-> 20, brk |-> TRUE]
         ELSE [codec |-> "libx264", crf |-> 23, brk |-> FALSE]

\* lines 243-265: what one matching line assigns to codec and crf, and
\* whether it breaks out of the loop
PlanOfLine(w, h, fps) ==
    IF w * h > WQHD
    THEN [codec |-> "libx265", crf |-> IF fps > FpsLimit THEN 23 ELSE 25, brk |-> TRUE]
    ELSE IF w * h > FHD \/ fps > FpsLimit
         THEN [codec |-> "libx264", crf |-> 20, brk |-> TRUE]
         ELSE [codec |-> "libx264", crf |-> 23, brk |-> FALSE]

\* lines 238-265: the loop over the prober's lines, from line i on, with the
\* codec and crf assigned so far
RECURSIVE ScanStreams(_, _, _)
ScanStreams(lines, i, acc) ==
    IF i > Len(lines)
    THEN acc
    ELSE LET r == PlanOfLine(lines[i].w, lines[i].h, lines[i].fps)
         IN  IF r.brk
             THEN [codec |-> r.codec, crf |-> r.crf]
             ELSE ScanStreams(lines, i + 1, [codec |-> r.codec, crf |-> r.crf])

\* lines 233-265: codec and crf after the loop (NoPlan when no line matched)
SelectPlan(lines) ==
    ScanStreams(lines, 1, NoPlan)

\* lines 229-265: the plans the prober outputs with a video stream lead to
VideoPlans ==
    {SelectPlan(out) : out \in ProbeOutputs \ {<<>>}}

\* get_filename, lines 100-101: the base name without directory and extension
get_filename(full_filename) ==
    full_filename.name

\* line 273: tempfile.gettempdir() + os.path.sep + get_filename(in_filename)
\* + "_convert" + ext
tmp_filename(in_filename) ==
    <<"tempdir", get_filename(in_filename), "_convert", in_filename.ext>>

\* get_seconds, lines 110-111: seconds of an HH:MM:SS timestamp that parses
get_seconds(timestamp) ==
    timestamp[3] + timestamp[2] * 60 + timestamp[1] * 60 * 60

\* get_seconds, line 110: time.strptime raises ValueError unless %H is in
\* 00..23, %M in 00..59 and %S in 00..61
Parses(timestamp) ==
    /\ timestamp[1] <= 23
    /\ timestamp[2] <= 59
    /\ timestamp[3] <= 61

\* compress_and_replace, lines 307-315: the handling of a line calls
\* get_seconds with a timestamp it raises on
HandleRaises(line, total) ==
    /\ line.kind = IF total = 0 THEN "Duration" ELSE "time"
    /\ ~Parses(line.ts)

\* compress_and_replace, lines 305-318: a line that was read sets total_time
\* while that is 0, and the percent afterwards
HandleLine(line, total, value) ==
    IF total = 0
    THEN [total_time |-> IF line.kind = "Duration" THEN get_seconds(line.ts) ELSE 0,
          value |-> value]
    ELSE [total_time |-> total,
          value |-> IF line.kind = "time"
                    THEN (100 * get_seconds(line.ts)) \div total
                    ELSE value]

\* a plausible slip: an output of exactly 0.9 times the size also replaces
SufficientlySmaller_Inclusive(new_file_size, old_file_size) ==
    RatioDen * new_file_size <= RatioNum * old_file_size

\* line 339: new_file_size < old_file_size * 0.9.  For sizes below 2^49 the
\* double product old_file_size * 0.9 lies strictly between the integers
\* next to 9*old/10, or equals it when that is an integer, so the comparison
\* of the integer new_file_size with it is the exact one.
SufficientlySmaller(new_file_size, old_file_size) ==
    RatioDen * new_file_size < RatioNum * old_file_size

\* a plausible slip: an output of exactly 1024 bytes is accepted
LargeEnough_Inclusive(new_file_size) ==
    new_file_size >= MinOutputSize

\* line 335: new_file_size > 1024
LargeEnough(new_file_size) ==
    new_file_size > MinOutputSize

\* lines 130-140: the candidates found below the path, in scan order
RECURSIVE Scan(_)
Scan(f) ==
    IF f > NFiles
    THEN <<>>
    ELSE IF disk[f] # NoFile THEN <<f>> \o Scan(f + 1) ELSE Scan(f + 1)

\* ---------------------------------------------------------------- Init
Init ==
    /\ \E v \in [Files -> BOOLEAN] : disk = [f \in Files |-> Original(f, v[f])]
    /\ tmp = NoFile
    /\ hash_list = <<>>
    /\ tools \in [ffprobe : BOOLEAN, ffmpeg : BOOLEAN]
    /\ stop = FALSE
    /\ ffmpeg_thread = FALSE
    /\ label_video_name = [text |-> "", file |-> 0]
    /\ label_progress = [ok |-> 0, failed |-> 0]
    /\ progress_video = 0
    /\ pc = "idle"
    /\ filenames = <<>>
    /\ f_id = -1
    /\ success = 0
    /\ result = FALSE
    /\ stderr = <<>>
    /\ plan = NoPlan
    /\ proc = NoProc
    /\ total_time = 0
    /\ raised = "none"
    /\ run = 0
    /\ vanished = {}
    /\ before = NoFile
    /\ stop_fid = -1
    /\ stop_pc = "none"
    /\ ok_files = {}
    /\ popened = {}
    /\ prev_ok = {}
    /\ prev_stopped = FALSE

\* the part of process_daemon the worker is in: scanning, inside
\* hash_and_compress for the current file, between two files, or leaving
InFlight ==
    pc \in {"fingerprint", "probe", "popen", "readline", "stopcheck",
            "exitcode", "remove", "move", "record"}

Phase ==
    IF InFlight THEN "inflight"
    ELSE IF pc \in {"count", "check_stop", "loop"} THEN "between"
    ELSE IF pc = "scan" THEN "scan"
    ELSE "end"

\* ------------------------------------------------------------ GUI thread
\* start_stop, lines 435-443: start a new worker thread
Start ==
    /\ ~ffmpeg_thread
    /\ run < MaxRuns
    /\ stop' = FALSE
    /\ ffmpeg_thread' = TRUE
    /\ pc' = "scan"
    /\ raised' = "none"
    /\ run' = run + 1
    /\ stop_fid' = -1
    /\ stop_pc' = "none"
    /\ prev_ok' = ok_files
    /\ prev_stopped' = (stop_pc # "none")
    /\ ok_files' = {}
    /\ popened' = {}
    /\ UNCHANGED <<disk, tmp, hash_list, tools, labels, loopvars, result,
                   locals, vanished, before>>

\* start_stop, lines 429-431: ask the running worker to stop
RequestStop ==
    /\ ffmpeg_thread
    /\ stop' = TRUE
    /\ stop_fid' = IF stop_pc = "none" THEN f_id ELSE stop_fid
    /\ stop_pc' = IF stop_pc = "none" THEN Phase ELSE stop_pc
    /\ UNCHANGED <<disk, tmp, hash_list, tools, ffmpeg_thread, labels, pc,
                   loopvars, result, locals, raised, run, vanished, before,
                   ok_files, popened, prev_ok, prev_stopped>>

\* ----------------------------------------------------------- environment
\* another program deletes the file at path f.  The program sees the loss
\* of a file only when it next reads its path, so the deletion is placed
\* while the file is the one being processed.
Vanish(f) ==
    /\ InFlight
    /\ f = cur
    /\ Cardinality(vanished) < MaxVanish
    /\ f \notin vanished
    /\ disk[f] # NoFile
    /\ disk' = [disk EXCEPT ![f] = NoFile]
    /\ vanished' = vanished \cup {f}
    /\ UNCHANGED <<tmp, hash_list, tools, gui, labels, pc, loopvars, result,
                   locals, raised, run, before, stop_fid, stop_pc, ok_files,
                   popened, prev_ok, prev_stopped>>

\* the transcoder writes its next line to its stderr
ProcEmit ==
    /\ proc.state = "running"
    /\ proc.written < MaxLines
    /\ proc' = [proc EXCEPT !.written = @ + 1, !.pipe = @ + 1]
    /\ stderr' = Append(stderr, FfmpegLine(proc.written + 1))
    /\ UNCHANGED <<disk, tmp, hash_list, tools, gui, labels, pc, loopvars,
                   result, plan, total_time, raised, history>>

\* the transcoder exits by itself, after it has written to its stderr: with
\* status 0 and a finished output of some size when its input is there, or
\* with a non-zero status and an unfinished output or none
ProcExit ==
    /\ proc.state = "running"
    /\ proc.written > 0
    /\ \/ /\ disk[cur] = before
          /\ \E n \in NewSizes :
                /\ tmp' = [id |-> OutId(before.id), size |-> n, atime |-> "new",
                           mtime |-> "new", video |-> TRUE]
                /\ proc' = [proc EXCEPT !.state = "exited", !.exitcode = 0, !.out = n]
       \/ /\ tmp' \in {tmp, Partial}
          /\ proc' = [proc EXCEPT !.state = "exited", !.exitcode = 1]
    /\ UNCHANGED <<disk, hash_list, tools, gui, labels, pc, loopvars, result,
                   stderr, plan, total_time, raised, history>>


\* a second instance of the program works on OtherPath in the same
\* temporary directory: its transcoder finishes the output at its
\* tmp_filename, or the instance deletes or moves that file
OtherRun ==
    /\ InFlight
    /\ tmp_filename(OtherPath) = tmp_filename(Path(cur))
    /\ tmp' \in {OtherOutput, NoFile}
    /\ tmp' # tmp
    /\ UNCHANGED <<disk, hash_list, tools, gui, labels, pc, loopvars, result,
                   locals, raised, history>>

\* --------------------------------------------------------- worker thread
\* an exception leaves process_daemon through its finally block
Raise(kind) ==
    /\ pc' = "finally"
    /\ raised' = kind

\* process_daemon, lines 128-152: scan the path
ScanPath ==
    /\ pc = "scan"
    /\ filenames' = Scan(1)
    /\ f_id' = -1
    /\ success' = 0
    /\ pc' = IF Len(filenames') = 0 THEN "finally" ELSE "loop"
    /\ UNCHANGED <<disk, tmp, hash_list, tools, gui, labels, result, locals,
                   raised, history>>

\* process_daemon, lines 154-157: the for statement takes the next file, or
\* ends the loop
LoopNext ==
    /\ pc = "loop"
    /\ IF f_id + 1 < Len(filenames)
       THEN /\ f_id' = f_id + 1
            /\ label_video_name' = [text |-> "file", file |-> filenames[f_id' + 1]]
            /\ before' = disk[filenames[f_id' + 1]]
            /\ pc' = "fingerprint"
       ELSE /\ pc' = "finally"
            /\ UNCHANGED <<f_id, label_video_name, before>>
    /\ UNCHANGED <<disk, tmp, hash_list, tools, gui, label_progress,
                   progress_video, filenames, success, result, locals, raised,
                   run, vanished, stop_fid, stop_pc, ok_files, popened,
                   prev_ok, prev_stopped>>

\* a plausible slip: the recorded file is reported but not returned early
Fingerprint_NoReturn ==
    /\ pc = "fingerprint"
    /\ IF disk[cur] = NoFile
       THEN /\ result' = FALSE
            /\ pc' = "count"
       ELSE /\ pc' = "probe"
            /\ UNCHANGED result
    /\ UNCHANGED <<disk, tmp, hash_list, tools, gui, labels, loopvars, locals,
                   raised, history>>

\* hash_and_compress, lines 185-193: fingerprint the file and look it up
Fingerprint ==
    /\ pc = "fingerprint"
    /\ IF disk[cur] = NoFile
       THEN /\ result' = FALSE
            /\ pc' = "count"
       ELSE IF get_file_fingerprint(disk[cur]) \in Range(hash_list)
            THEN /\ result' = TRUE
                 /\ pc' = "count"
            ELSE /\ pc' = "probe"
                 /\ UNCHANGED result
    /\ UNCHANGED <<disk, tmp, hash_list, tools, gui, labels, loopvars, locals,
                   raised, history>>

\* compress_and_replace, lines 220-270: run the prober and choose codec and
\* crf.  The prober reports the streams of the bytes at the path, and none
\* when the path is gone.
Probe ==
    /\ pc = "probe"
    /\ IF ~tools.ffprobe
       THEN /\ Raise("tool")
            /\ UNCHANGED <<result, plan>>
       ELSE /\ plan' \in IF disk[cur].video THEN VideoPlans ELSE {SelectPlan(<<>>)}
            /\ IF plan' = NoPlan
               THEN /\ result' = FALSE
                    /\ pc' = "count"
               ELSE /\ pc' = "popen"
                    /\ UNCHANGED result
            /\ UNCHANGED raised
    /\ UNCHANGED <<disk, tmp, hash_list, tools, gui, labels, loopvars, stderr,
                   proc, total_time, history>>

\* a plausible slip: a missing transcoder is handled like a failure of the
\* one file, and the batch goes on
Popen_CaughtPerFile ==
    /\ pc = "popen"
    /\ IF ~tools.ffmpeg
       THEN /\ result' = FALSE
            /\ pc' = "count"
            /\ UNCHANGED <<plan, proc, popened, progress_video>>
       ELSE /\ plan' = NoPlan
            /\ proc' = [state |-> "running", exitcode |-> 0, out |-> 0,
                        written |-> 0, pipe |-> 0, terminated |-> FALSE]
            /\ popened' = popened \cup {cur}
            /\ progress_video' = 0
            /\ pc' = "readline"
            /\ UNCHANGED result
    /\ UNCHANGED <<disk, tmp, hash_list, tools, gui, label_video_name,
                   label_progress, loopvars, stderr, total_time, raised, run,
                   vanished, before, stop_fid, stop_pc, ok_files, prev_ok,
                   prev_stopped>>

\* compress_and_replace, lines 272-295: start the transcoder; codec and crf
\* are read for the last time, in the command line
Popen ==
    /\ pc = "popen"
    /\ IF ~tools.ffmpeg
       THEN /\ Raise("tool")
            /\ UNCHANGED <<plan, proc, popened, progress_video>>
       ELSE /\ plan' = NoPlan
            /\ proc' = [state |-> "running", exitcode |-> 0, out |-> 0,
                        written |-> 0, pipe |-> 0, terminated |-> FALSE]
            /\ popened' = popened \cup {cur}
            /\ progress_video' = 0
            /\ pc' = "readline"
            /\ UNCHANGED raised
    /\ UNCHANGED <<disk, tmp, hash_list, tools, gui, label_video_name,
                   label_progress, loopvars, result, stderr, total_time, run,
                   vanished, before, stop_fid, stop_pc, ok_files, prev_ok,
                   prev_stopped>>

\* compress_and_replace, lines 298-300: readline returns a line, or '' at the
\* end of the stream of an exited process, which ends the loop
Readline ==
    /\ pc = "readline"
    /\ \/ /\ proc.pipe > 0
          /\ proc' = [proc EXCEPT !.pipe = @ - 1]
          /\ pc' = "stopcheck"
       \/ /\ proc.pipe = 0
          /\ proc.state = "exited"
          /\ pc' = "exitcode"
          /\ UNCHANGED proc
    /\ UNCHANGED <<disk, tmp, hash_list, tools, gui, labels, loopvars, result,
                   stderr, plan, total_time, raised, history>>

\* compress_and_replace, lines 301-320: terminate the transcoder when stop is
\* set, then handle the line.  terminate() ends a running process with a
\* non-zero status and does nothing to one that has exited.  A timestamp
\* that strptime refuses raises ValueError, which nothing catches.
StopCheck ==
    /\ pc = "stopcheck"
    /\ IF stop /\ proc.state = "running"
       THEN /\ proc' = [proc EXCEPT !.state = "exited", !.exitcode = 1,
                                     !.terminated = TRUE]
            /\ tmp' = Partial
       ELSE UNCHANGED <<proc, tmp>>
    /\ LET line == stderr[proc.written - proc.pipe]
           handled == HandleLine(line, total_time, progress_video)
       IN  IF HandleRaises(line, total_time)
           THEN /\ Raise("value")
                /\ UNCHANGED <<total_time, progress_video>>
           ELSE /\ total_time' = handled.total_time
                /\ progress_video' = handled.value
                /\ pc' = "readline"
                /\ UNCHANGED raised
    /\ UNCHANGED <<disk, hash_list, tools, gui, label_video_name, label_progress,
                   loopvars, result, stderr, plan, history>>


\* a plausible slip: the timestamps are not copied before the replacement
Guard_NoUtime ==
    /\ pc = "exitcode"
    /\ IF proc.exitcode # 0
       THEN /\ tmp' = NoFile
            /\ result' = FALSE
            /\ pc' = "count"
            /\ UNCHANGED raised
       ELSE IF disk[cur] = NoFile \/ tmp = NoFile
            THEN /\ Raise("file")
                 /\ UNCHANGED <<tmp, result>>
            ELSE IF LargeEnough(tmp.size)
                 THEN IF SufficientlySmaller(tmp.size, disk[cur].size)
                      THEN /\ pc' = "remove"
                           /\ UNCHANGED <<tmp, result, raised>>
                      ELSE /\ tmp' = NoFile
                           /\ result' = TRUE
                           /\ pc' = "record"
                           /\ UNCHANGED raised
                 ELSE /\ tmp' = NoFile
                      /\ result' = FALSE
                      /\ pc' = "count"
                      /\ UNCHANGED raised
    /\ UNCHANGED <<disk, hash_list, tools, gui, labels, loopvars, locals,
                   history>>

\* compress_and_replace, lines 322-344 and 349-359: the exit status, the two
\* sizes, the decision, and the copy of the timestamps when replacing
Guard ==
    /\ pc = "exitcode"
    /\ IF proc.exitcode # 0
       THEN /\ tmp' = NoFile
            /\ result' = FALSE
            /\ pc' = "count"
            /\ UNCHANGED raised
       ELSE IF disk[cur] = NoFile \/ tmp = NoFile
            THEN /\ Raise("file")
                 /\ UNCHANGED <<tmp, result>>
            ELSE IF LargeEnough(tmp.size)
                 THEN IF SufficientlySmaller(tmp.size, disk[cur].size)
                      THEN /\ tmp' = [tmp EXCEPT !.atime = disk[cur].atime,
                                                 !.mtime = disk[cur].mtime]
                           /\ pc' = "remove"
                           /\ UNCHANGED <<result, raised>>
                      ELSE /\ tmp' = NoFile
                           /\ result' = TRUE
                           /\ pc' = "record"
                           /\ UNCHANGED raised
                 ELSE /\ tmp' = NoFile
                      /\ result' = FALSE
                      /\ pc' = "count"
                      /\ UNCHANGED raised
    /\ UNCHANGED <<disk, hash_list, tools, gui, labels, loopvars, locals,
                   history>>

\* compress_and_replace, line 346: delete the original
RemoveOrig ==
    /\ pc = "remove"
    /\ IF disk[cur] = NoFile
       THEN /\ Raise("file")
            /\ UNCHANGED disk
       ELSE /\ disk' = [disk EXCEPT ![cur] = NoFile]
            /\ pc' = "move"
            /\ UNCHANGED raised
    /\ UNCHANGED <<tmp, hash_list, tools, gui, labels, loopvars, result,
                   locals, history>>

\* a plausible slip: the output is copied to the original's path, not moved
MoveTmp_Copy ==
    /\ pc = "move"
    /\ IF tmp = NoFile
       THEN /\ Raise("file")
            /\ UNCHANGED <<disk, result>>
       ELSE /\ disk' = [disk EXCEPT ![cur] = tmp]
            /\ result' = TRUE
            /\ pc' = "record"
            /\ UNCHANGED raised
    /\ UNCHANGED <<tmp, hash_list, tools, gui, labels, loopvars, locals,
                   history>>

\* compress_and_replace, lines 347-354: move the output to the original's path
MoveTmp ==
    /\ pc = "move"
    /\ IF tmp = NoFile
       THEN /\ Raise("file")
            /\ UNCHANGED <<disk, tmp, result>>
       ELSE /\ disk' = [disk EXCEPT ![cur] = tmp]
            /\ tmp' = NoFile
            /\ result' = TRUE
            /\ pc' = "record"
            /\ UNCHANGED raised
    /\ UNCHANGED <<hash_list, tools, gui, labels, loopvars, locals, history>>

\* a plausible slip: the appended list is not written back to the settings
Record_NotStored ==
    /\ pc = "record"
    /\ IF disk[cur] = NoFile
       THEN /\ Raise("file")
       ELSE /\ pc' = "count"
            /\ UNCHANGED raised
    /\ UNCHANGED <<disk, tmp, hash_list, tools, gui, labels, loopvars, result,
                   locals, history>>

\* a plausible slip: the fingerprint taken before the transcode is appended
Record_First ==
    /\ pc = "record"
    /\ hash_list' = Append(hash_list, get_file_fingerprint(before))
    /\ pc' = "count"
    /\ UNCHANGED <<disk, tmp, tools, gui, labels, loopvars, result, locals,
                   raised, history>>

\* a plausible slip: the list is stored with the new fingerprint alone
Record_Alone ==
    /\ pc = "record"
    /\ IF disk[cur] = NoFile
       THEN /\ Raise("file")
            /\ UNCHANGED hash_list
       ELSE /\ hash_list' = <<get_file_fingerprint(disk[cur])>>
            /\ pc' = "count"
            /\ UNCHANGED raised
    /\ UNCHANGED <<disk, tmp, tools, gui, labels, loopvars, result, locals,
                   history>>

\* hash_and_compress, lines 198-205: fingerprint the path again and append
Record ==
    /\ pc = "record"
    /\ IF disk[cur] = NoFile
       THEN /\ Raise("file")
            /\ UNCHANGED hash_list
       ELSE /\ hash_list' = Append(hash_list, get_file_fingerprint(disk[cur]))
            /\ pc' = "count"
            /\ UNCHANGED raised
    /\ UNCHANGED <<disk, tmp, tools, gui, labels, loopvars, result, locals,
                   history>>

\* process_daemon, lines 159-164: count the result
Count ==
    /\ pc = "count"
    /\ success' = success + (IF result THEN 1 ELSE 0)
    /\ label_progress' = [ok |-> success', failed |-> f_id - success' + 1]
    /\ ok_files' = IF result THEN ok_files \cup {cur} ELSE ok_files
    /\ pc' = "check_stop"
    /\ UNCHANGED <<disk, tmp, hash_list, tools, gui, label_video_name,
                   progress_video, filenames, f_id, result, locals, raised,
                   run, vanished, before, stop_fid, stop_pc, popened, prev_ok,
                   prev_stopped>>

\* process_daemon, line 166: leave the loop when stop is set.  The frame of
\* the returned hash_and_compress is gone.
CheckStop ==
    /\ pc = "check_stop"
    /\ pc' = IF stop THEN "finally" ELSE "loop"
    /\ result' = FALSE
    /\ stderr' = <<>>
    /\ plan' = NoPlan
    /\ proc' = NoProc
    /\ total_time' = 0
    /\ UNCHANGED <<disk, tmp, hash_list, tools, gui, labels, loopvars, raised,
                   history>>

\* process_daemon, lines 170-178: the finally block reads stop and sets the
\* final status
Finally ==
    /\ pc = "finally"
    /\ progress_video' = 0
    /\ label_video_name' = [text |-> IF stop THEN "aborted" ELSE "done", file |-> 0]
    /\ pc' = "exit"
    /\ result' = FALSE
    /\ stderr' = <<>>
    /\ plan' = NoPlan
    /\ proc' = NoProc
    /\ total_time' = 0
    /\ UNCHANGED <<disk, tmp, hash_list, tools, gui, label_progress, loopvars,
                   raised, history>>

\* process_daemon, line 179: the worker thread is over
Exit ==
    /\ pc = "exit"
    /\ ffmpeg_thread' = FALSE
    /\ pc' = "idle"
    /\ UNCHANGED <<disk, tmp, hash_list, tools, stop, labels, loopvars,
                   result, locals, raised, history>>

Next ==
    \/ Start
    \/ RequestStop
    \/ \E f \in Files : Vanish(f)
    \/ ProcEmit
    \/ ProcExit
    \/ ScanPath
    \/ LoopNext
    \/ Fingerprint
    \/ Probe
    \/ Popen
    \/ Readline
    \/ StopCheck
    \/ Guard
    \/ RemoveOrig
    \/ MoveTmp
    \/ Record
    \/ Count
    \/ CheckStop
    \/ Finally
    \/ Exit

Spec ==
    Init /\ [][Next]_vars


\* --------------------------------------------------- the worker is scheduled
\* the steps of the worker thread
Worker ==
    \/ ScanPath
    \/ LoopNext
    \/ Fingerprint
    \/ Probe
    \/ Popen
    \/ Readline
    \/ StopCheck
    \/ Guard
    \/ RemoveOrig
    \/ MoveTmp
    \/ Record
    \/ Count
    \/ CheckStop
    \/ Finally
    \/ Exit

\* the interpreter runs the worker thread whenever it can take a step (a
\* thread that is not blocked gets the interpreter lock again and again);
\* nothing makes the transcoder write a line or exit, or the user press a
\* button
SpecLive ==
    Init /\ [][Next]_vars /\ WF_vars(Worker)

\* ------------------------------------------- two instances of the program
NextTwoRuns ==
    \/ Next
    \/ OtherRun

SpecTwoRuns ==
    Init /\ [][NextTwoRuns]_vars

\* ------------------------------------------------ the encoding plan alone
\* line 229: some prober output is captured
InitPolicy ==
    /\ stderr \in ProbeOutputs
    /\ pc = "plan"
    /\ disk = [f \in Files |-> Original(f, TRUE)]
    /\ tmp = NoFile
    /\ hash_list = <<>>
    /\ tools = [ffprobe |-> TRUE, ffmpeg |-> TRUE]
    /\ stop = FALSE
    /\ ffmpeg_thread = FALSE
    /\ label_video_name = [text |-> "", file |-> 0]
    /\ label_progress = [ok |-> 0, failed |-> 0]
    /\ progress_video = 0
    /\ filenames = <<>>
    /\ f_id = -1
    /\ success = 0
    /\ result = FALSE
    /\ plan = NoPlan
    /\ proc = NoProc
    /\ total_time = 0
    /\ raised = "none"
    /\ run = 0
    /\ vanished = {}
    /\ before = NoFile
    /\ stop_fid = -1
    /\ stop_pc = "none"
    /\ ok_files = {}
    /\ popened = {}
    /\ prev_ok = {}
    /\ prev_stopped = FALSE

\* lines 233-265: codec and crf are chosen from the captured output
PlanStep ==
    /\ pc = "plan"
    /\ plan' = SelectPlan(stderr)
    /\ pc' = "planned"
    /\ UNCHANGED <<disk, tmp, hash_list, tools, gui, labels, loopvars, result,
                   stderr, proc, total_time, raised, history>>

NextPolicy ==
    PlanStep

SpecPolicy ==
    InitPolicy /\ [][NextPolicy]_vars

\* ------------------------------------------ the transcoder's output alone
\* lines 291-297: the transcoder of the one candidate was started and has
\* written its whole output, a duration line and then up to MaxOut - 1
\* progress lines and other lines, and has exited; the worker enters its
\* read loop
InitProgress ==
    /\ \E n \in 1..MaxOut : \E d \in DurationLines :
          \E rest \in [1..(n - 1) -> LaterLines] :
             /\ stderr = <<d>> \o rest
             /\ proc = [state |-> "exited", exitcode |-> 1, out |-> 0,
                        written |-> n, pipe |-> n, terminated |-> FALSE]
    /\ pc = "readline"
    /\ total_time = 0
    /\ progress_video = 0
    /\ disk = [f \in Files |-> Original(f, TRUE)]
    /\ tmp = NoFile
    /\ hash_list = <<>>
    /\ tools = [ffprobe |-> TRUE, ffmpeg |-> TRUE]
    /\ stop = FALSE
    /\ ffmpeg_thread = TRUE
    /\ label_video_name = [text |-> "file", file |-> 1]
    /\ label_progress = [ok |-> 0, failed |-> 0]
    /\ filenames = Scan(1)
    /\ f_id = 0
    /\ success = 0
    /\ result = FALSE
    /\ plan = NoPlan
    /\ raised = "none"
    /\ run = 1
    /\ vanished = {}
    /\ before = Original(1, TRUE)
    /\ stop_fid = -1
    /\ stop_pc = "none"
    /\ ok_files = {}
    /\ popened = {1}
    /\ prev_ok = {}
    /\ prev_stopped = FALSE

NextProgress ==
    \/ Readline
    \/ StopCheck

SpecProgress ==
    InitProgress /\ [][NextProgress]_vars

\* ------------------------------------------------------------- claims
\* C8: for a prober output with one video stream the plan is the row of the
\* decision table, read in order: area > 2560*1440 and fps > 30 gives
\* libx265 with quality 23; area > 2560*1440 gives libx265 with 25; area >
\* 1920*1080 or fps > 30 gives libx264 with 20; anything else libx264 with
\* 23.  Every input gets exactly one row, the boundaries included.
C8_PlanIsTable ==
    (pc = "planned" /\ Len(stderr) = 1) =>
        LET area == stderr[1].w * stderr[1].h
            fps == stderr[1].fps
        IN  plan = CASE area > 3686400 /\ fps > 3000 -> [codec |-> "libx265", crf |-> 23]
                     [] area > 3686400 /\ fps <= 3000 -> [codec |-> "libx265", crf |-> 25]
                     [] area <= 3686400 /\ (area > 2073600 \/ fps > 3000) ->
                            [codec |-> "libx264", crf |-> 20]
                     [] OTHER -> [codec |-> "libx264", crf |-> 23]

\* C8 witness: the plan of a single stream of exactly 2560x1440 at exactly
\* 30 fps has been chosen, and is libx264 with quality 20
C8_Witness ==
    /\ pc = "planned"
    /\ Len(stderr) = 1
    /\ stderr[1].w * stderr[1].h = 3686400
    /\ stderr[1].fps = 3000
    /\ plan = [codec |-> "libx264", crf |-> 20]

\* C9: with several matching streams the plan is the plan of the first
\* stream alone
C9_FirstStreamDecides ==
    (pc = "planned" /\ Len(stderr) >= 1) => plan = SelectPlan(<<stderr[1]>>)


\* hash_and_compress has returned for the current file
Returned ==
    pc \in {"record", "count"}

\* the transcoder was run for the current file and exited with status 0
ExitedZero ==
    /\ cur \in popened
    /\ proc.state = "exited"
    /\ proc.exitcode = 0

\* C1: when the fingerprint of the current file is already recorded, the
\* worker goes from fingerprinting straight to counting, with a true result,
\* without a probe or a transcoder and without changing any file or the
\* recorded fingerprints; a true result adds one to the success count.
C1_RecordedIsSkipped ==
    [][/\ (/\ pc = "fingerprint"
           /\ pc' # pc
           /\ disk[cur] # NoFile
           /\ get_file_fingerprint(disk[cur]) \in Range(hash_list))
          => (/\ pc' = "count"
              /\ result'
              /\ disk' = disk
              /\ tmp' = tmp
              /\ hash_list' = hash_list
              /\ proc' = NoProc
              /\ popened' = popened)
       /\ (pc = "count" /\ pc' # pc /\ result)
          => (/\ success' = success + 1
              /\ label_progress'.ok = success + 1
              /\ cur \in ok_files')]_vars

\* C1 witness: a file whose fingerprint is recorded has been skipped and is
\* about to be counted as a success
C1_Witness ==
    /\ pc = "count"
    /\ result
    /\ cur \notin popened
    /\ disk[cur] # NoFile
    /\ get_file_fingerprint(disk[cur]) \in Range(hash_list)

\* C2, as claimed: in a run that follows a run nobody asked to stop, with no
\* file deleted, the transcoder is started for no file
C2_SecondRunStartsNothing ==
    (run >= 2 /\ ~prev_stopped /\ vanished = {}) => popened = {}

\* C2, amended: in such a run the transcoder is started for no file that the
\* run before counted as a success
C2_SecondRunSkipsSucceeded ==
    (run >= 2 /\ ~prev_stopped /\ vanished = {}) => popened \cap prev_ok = {}

\* C2 witness: a second run is over in which every success of the first run
\* was a success again without a transcoder, while the transcoder ran again
\* for a file the first run failed on
C2_Witness ==
    /\ run = 2
    /\ pc = "exit"
    /\ ~prev_stopped
    /\ vanished = {}
    /\ prev_ok # {}
    /\ prev_ok \subseteq ok_files
    /\ popened # {}
    /\ popened \cap prev_ok = {}

\* C3, as claimed: after a successful transcode the fingerprint last added
\* is that of the bytes the path held before the transcode
C3_RecordsOriginal ==
    (pc = "count" /\ result /\ cur \in popened) =>
        hash_list[Len(hash_list)] = get_file_fingerprint(before)

\* C3, amended: after a successful transcode the fingerprint last added is
\* that of the bytes the path holds now: the original's when it was kept,
\* the sufficiently smaller output's when it was replaced
C3_RecordsResultingFile ==
    (pc = "count" /\ result /\ cur \in popened) =>
        /\ hash_list # <<>>
        /\ hash_list[Len(hash_list)] = get_file_fingerprint(disk[cur])
        /\ \/ disk[cur] = before
           \/ /\ disk[cur].id = OutId(before.id)
              /\ disk[cur].size = proc.out
              /\ 10 * proc.out < 9 * before.size

\* C3 witness: an original was replaced and the output's fingerprint added
C3_Witness ==
    /\ pc = "count"
    /\ result
    /\ cur \in popened
    /\ disk[cur].id = OutId(before.id)
    /\ hash_list[Len(hash_list)] # get_file_fingerprint(before)

\* C4: after a transcode with exit status 0 and an output of more than 1024
\* bytes the result is a success and no temporary output is left; with
\* 10*new < 9*old the path holds the output, carrying the original's
\* timestamp, otherwise (equality included) it holds the original.  (A path
\* deleted by another program after the decision holds nothing.)
C4_Threshold ==
    (Returned /\ ExitedZero /\ proc.out > 1024) =>
        /\ result
        /\ tmp = NoFile
        /\ \/ disk[cur] = NoFile /\ cur \in vanished
           \/ disk[cur] = IF 10 * proc.out < 9 * before.size
                          THEN [id |-> OutId(before.id), size |-> proc.out,
                                atime |-> before.atime, mtime |-> before.mtime,
                                video |-> TRUE]
                          ELSE before

\* C4 witness: an output of exactly 0.9 times the original's size, above
\* 1024 bytes, was discarded and the original kept, with a true result
C4_Witness ==
    /\ pc = "record"
    /\ ExitedZero
    /\ proc.out > 1024
    /\ 10 * proc.out = 9 * before.size
    /\ disk[cur] = before
    /\ tmp = NoFile
    /\ result

\* C5: after a transcode with exit status 0 and an output of at most 1024
\* bytes the result is a failure, the temporary output is gone and the path
\* holds the original, whatever the original's size
C5_TooSmallFails ==
    (Returned /\ ExitedZero /\ proc.out <= 1024) =>
        /\ pc = "count"
        /\ ~result
        /\ tmp = NoFile
        /\ disk[cur] = before

\* C5 witness: an output of 1024 bytes for an original of at most 1024
\* bytes was refused
C5_Witness ==
    /\ pc = "count"
    /\ ExitedZero
    /\ proc.out = 1024
    /\ before.size <= 1024
    /\ ~result
    /\ disk[cur] = before

\* C6: when stop was requested while the current file was in flight, the
\* result returned for it is a failure and its path holds the original
C6_StopLeavesOriginal ==
    (Returned /\ stop_pc = "inflight" /\ stop_fid = f_id) =>
        /\ ~result
        /\ disk[cur] = before \/ (disk[cur] = NoFile /\ cur \in vanished)

\* C7: once stop was requested with file stop_fid the current one, no later
\* file is fingerprinted, probed or transcoded, and the final status of
\* the batch is "aborted"
C7_StopStartsNothing ==
    /\ (ffmpeg_thread /\ stop_pc \in {"inflight", "between"} /\ stop_fid >= 0
            /\ InFlight)
          => f_id = stop_fid
    /\ (pc = "exit" /\ stop_pc \in {"scan", "inflight", "between"})
          => label_video_name.text = "aborted"

\* C10: a batch that nobody asked to stop and that lacks no tool ends
\* with every candidate processed and no exception raised
C10_PerFileErrorsCaught ==
    (pc = "finally" /\ stop_pc = "none" /\ raised # "tool") =>
        /\ raised = "none"
        /\ f_id + 1 = Len(filenames)

\* the executable the current step of compress_and_replace needs is missing
ToolMissing ==
    \/ pc = "probe" /\ ~tools.ffprobe
    \/ pc = "popen" /\ ~tools.ffmpeg

\* C11: when the prober or the transcoder cannot be found, the worker goes
\* straight to the end of the batch, with the file not replaced and not
\* recorded and no transcoder started; from then on, until a new batch is
\* started, no file is changed, nothing is recorded and no other candidate
\* becomes the current one.
C11_ToolMissingHalts ==
    [][/\ (ToolMissing /\ pc' # pc)
          => (/\ pc' = "finally"
              /\ raised' = "tool"
              /\ disk' = disk
              /\ tmp' = tmp
              /\ hash_list' = hash_list
              /\ popened' = popened
              /\ f_id' = f_id)
       /\ (raised = "tool" /\ run' = run)
          => (/\ pc' \in {"finally", "exit", "idle"}
              /\ disk' = disk
              /\ tmp' = tmp
              /\ hash_list' = hash_list
              /\ popened' = popened
              /\ proc' = NoProc
              /\ f_id' = f_id
              /\ success' = success)]_vars

\* C11 witness: the batch is over after the transcoder was not found for a
\* probed file, with a later candidate never taken up
C11_Witness ==
    /\ pc = "exit"
    /\ raised = "tool"
    /\ tools.ffprobe
    /\ ~tools.ffmpeg
    /\ f_id + 1 < Len(filenames)
    /\ disk[cur] = before
    /\ popened = {}

\* C12: when the transcoder of the current file was terminated because stop
\* was requested, the failure count shown after the file counts the failed
\* files before it and not the cancelled one; and a batch that was asked
\* to stop while a file was in flight ends with the status "aborted"
C12_CancelNotCounted ==
    /\ (pc = "check_stop" /\ proc.terminated)
          => label_progress.failed = f_id - success
    /\ (pc = "exit" /\ stop_pc = "inflight")
          => label_video_name.text = "aborted"

\* the output the transcoder wrote is a duration line of more than 0 seconds
\* and then progress lines only, whose times strictly increase and end at
\* the duration
ClaimedOutput ==
    /\ Len(stderr) >= 2
    /\ stderr[1].kind = "Duration"
    /\ stderr[1].ts # <<0, 0, 0>>
    /\ \A i \in 2..Len(stderr) : stderr[i].kind = "time"
    /\ \A i \in 2..(Len(stderr) - 1) :
          3600 * stderr[i].ts[1] + 60 * stderr[i].ts[2] + stderr[i].ts[3]
            < 3600 * stderr[i + 1].ts[1] + 60 * stderr[i + 1].ts[2]
                + stderr[i + 1].ts[3]
    /\ stderr[Len(stderr)].ts = stderr[1].ts

\* C13: while such an output is read, the percent shown never decreases and
\* lies in 0..100; after a progress line was handled it is 100 * current
\* // T for the seconds of that line and of the duration line; every line
\* is handled, and the read loop is left after the last line with 100
\* shown.
C13_ProgressMonotone ==
    [][ClaimedOutput =>
         /\ progress_video' >= progress_video
         /\ progress_video' \in 0..100
         /\ (pc = "stopcheck" /\ pc' # pc /\ proc.written - proc.pipe >= 2) =>
               LET ts == stderr[proc.written - proc.pipe].ts
                   T == stderr[1].ts
               IN  progress_video' = (100 * (3600 * ts[1] + 60 * ts[2] + ts[3]))
                                        \div (3600 * T[1] + 60 * T[2] + T[3])
         /\ pc' \notin {"readline", "stopcheck"} =>
               /\ pc' = "exitcode"
               /\ progress_video' = 100]_vars

\* C14: while a file is the current one and no transcoder has been started
\* for it (it is being fingerprinted or probed, was skipped, or its probe
\* failed), the percent shown is 0 and not what an earlier file left
C14_PercentResetPerFile ==
    ((InFlight \/ pc = "count") /\ cur \notin popened) => progress_video = 0

\* C15: with a second instance at work on a source of the same base name
\* and extension, no instance measures or moves the other's temporary
\* output: every candidate path holds its original or the output made of
\* it, or nothing, and never the output made of the other instance's source
C15_TmpPathsDistinct ==
    \A f \in Files : disk[f].id \in {NoFile.id, f, OutId(f)}

\* C16: when stop has been requested during the processing of the current
\* file and its transcoder is running, the batch comes to its end, whether
\* or not the transcoder writes another line
C16_StopEndsBatch ==
    (stop /\ stop_pc = "inflight" /\ stop_fid = f_id /\ proc.state = "running")
        ~> (pc = "idle")

\* C17: a candidate path loses its file, other than by another program's
\* deletion, only in the worker's delete step, and then the transcoder has
\* exited with status 0 and the temporary path holds the complete output
\* of more than 1024 bytes, already carrying the original's two
\* timestamps; the copy of the timestamps leaves the original in place;
\* the move comes after the deletion and leaves the output, with the
\* original's timestamps, at the source path and nothing at the temporary
\* path.
C17_ReplacementOrder ==
    [][/\ \A f \in Files :
            (disk[f] # NoFile /\ disk'[f] = NoFile /\ vanished' = vanished)
              => (/\ pc = "remove"
                  /\ f = cur
                  /\ ExitedZero
                  /\ tmp.id = OutId(disk[f].id)
                  /\ tmp.size = proc.out
                  /\ tmp.size > 1024
                  /\ tmp.atime = disk[f].atime
                  /\ tmp.mtime = disk[f].mtime
                  /\ tmp' = tmp
                  /\ pc' = "move")
       /\ (pc = "exitcode" /\ pc' = "remove")
              => (/\ disk' = disk
                  /\ tmp' = [tmp EXCEPT !.atime = before.atime,
                                        !.mtime = before.mtime])
       /\ (pc = "move" /\ pc' # pc)
              => (/\ disk[cur] = NoFile
                  /\ pc' = "record"
                  /\ tmp' = NoFile
                  /\ disk'[cur] = [id |-> OutId(before.id), size |-> proc.out,
                                   atime |-> before.atime,
                                   mtime |-> before.mtime, video |-> TRUE])]_vars

\* C17 witness: a replacement is complete: the path holds the output with
\* the original's timestamps and the temporary path holds nothing
C17_Witness ==
    /\ pc = "record"
    /\ cur \in popened
    /\ disk[cur].id = OutId(before.id)
    /\ disk[cur].atime = before.atime
    /\ disk[cur].mtime = before.mtime
    /\ before.mtime = "old"
    /\ tmp = NoFile

\* C18: a batch that ends with the status "done" found no candidate, or
\* has taken up every candidate it found and got a result for each
C18_DoneMeansAllProcessed ==
    (pc = "exit" /\ label_video_name.text = "done") =>
        /\ f_id + 1 = Len(filenames)
        /\ raised = "none"

\* C19: the recorded fingerprints change only by the append of one
\* fingerprint after a true result, so what was recorded stays recorded
\* and a file whose processing returns a failure leaves them unchanged;
\* and a file is skipped as a success only when its fingerprint is
\* recorded, so a file that failed is not skipped by the next run.
C19_FailureRecordsNothing ==
    [][/\ hash_list' # hash_list
          => (/\ pc = "record"
              /\ result
              /\ pc' = "count"
              /\ result'
              /\ Len(hash_list') = Len(hash_list) + 1
              /\ SubSeq(hash_list', 1, Len(hash_list)) = hash_list)
       /\ (pc # "count" /\ pc' = "count" /\ ~result')
          => hash_list' = hash_list
       /\ (pc = "fingerprint" /\ pc' = "count" /\ result')
          => get_file_fingerprint(disk[cur]) \in Range(hash_list)]_vars

\* C19 witness: after a first run that nobody stopped and with no file
\* deleted, a file that the first run failed on is in the transcoder's read
\* loop again in the second run, next to a file that is recorded
C19_Witness ==
    /\ run = 2
    /\ ~prev_stopped
    /\ vanished = {}
    /\ pc = "readline"
    /\ cur \notin prev_ok
    /\ prev_ok # {}
    /\ hash_list # <<>>

\* C20: when the processing of a file returns a result, the temporary path
\* holds no output of it: if the transcoder was started for the file the
\* path holds nothing (the output was deleted or moved over the original),
\* and if it was not (recorded fingerprint, missing source, failed probe)
\* the processing did not touch the temporary path.
C20_NoTmpAfterResult ==
    [][/\ (pc' \in {"record", "count"} /\ filenames'[f_id' + 1] \in popened')
          => tmp' = NoFile
       /\ (pc \in {"fingerprint", "probe"} /\ pc' # pc)
          => tmp' = tmp]_vars

\* C20 witness: a transcode was cancelled, its unfinished output was at the
\* temporary path, and the failure is returned with nothing there
C20_Witness ==
    /\ pc = "count"
    /\ cur \in popened
    /\ proc.terminated
    /\ ~result
    /\ tmp = NoFile

====
